---- MODULE Spec2Model ----
(***************************************************************************)
(* Model of the batched, pooled SQLite writer of peech_ai_pipeline         *)
(* (src/core/database.py): class DatabasePool (a queue.Queue of            *)
(* connections) and class Database (pending_batch guarded by batch_lock,   *)
(* save / save_batch / _flush_batch / close / init_db / clear_all_data /   *)
(* get_stats), called by a bounded number of client threads; and of its     *)
(* callers: classify_headline (src/core/classifier.py) and ScraperEngine   *)
(* (src/core/scraper_engine.py).                                           *)
(*                                                                         *)
(* Granularity: one step per statement that reads or writes shared state   *)
(* (pending_batch, the pool queue, a connection, the database file).       *)
(* Python switches threads between bytecodes, so `copy()` and `clear()`    *)
(* of _flush_batch, and `if self.pending_batch` of close, are separate     *)
(* steps.                                                                  *)
(*                                                                         *)
(* A row is <<value, ts>>: value stands for the five caller-supplied       *)
(* fields, ts for the datetime.now() stamp the code adds (distinct for     *)
(* every row built).                                                       *)
(*                                                                         *)
(* A connection's open transaction is txn[c] = [del, rows]: Python's       *)
(* sqlite3 opens a transaction implicitly before INSERT/DELETE and keeps   *)
(* it open until commit(), rollback() or close() is called on that         *)
(* connection.  A connection with a non-empty transaction holds SQLite's   *)
(* single write lock; a write on another connection then fails with        *)
(* "database is locked" (or waits for the lock).                           *)
(***************************************************************************)
EXTENDS Integers, Sequences, FiniteSets, TLC

\* ---------------------------------------------------------------- bounds
NumThreads == 2
MaxCalls == 3
MaxAuxCalls == 1
MaxRows == 3
MaxFailures == 1
MaxPoolSize == 2
MaxBatchSize == 2
MaxBatchArg == 2
MaxVal == 1

Threads == 1..NumThreads
Conns == 1..MaxPoolSize
Vals == 1..MaxVal

VARIABLES
  \* DatabasePool fields
  pool_size,        \* DatabasePool.pool_size
  connections,      \* DatabasePool.connections: FIFO queue of idle connections
  closedConns,      \* connections on which close() was called
  \* Database fields
  batch_size,       \* Database.batch_size
  pending_batch,    \* Database.pending_batch
  batch_lock,       \* Database.batch_lock: 0 = free, else the holding thread
  \* the SQLite file and its connections
  tableExists,      \* the headlines table exists in the file
  store,            \* committed rows of headlines, in insertion order
  txn,              \* txn[c]: the open transaction of connection c
  \* the calling threads: thread[t] holds t's position and locals
  thread,
  \* environment counters
  clock,            \* datetime.now() ticks
  calls,            \* calls made so far
  auxCalls,         \* init_db / clear_all_data / get_stats calls made so far
  failures,         \* spontaneous backend failures so far
  \* history
  accepted,         \* rows appended to pending_batch by save()
  returnedOk,       \* rows whose save() returned normally
  everFailed,       \* some backend statement has raised sqlite3.Error
  failedRows,       \* rows of the batches whose flush failed
  cleared,          \* a DELETE FROM headlines has been committed
  overlapped,       \* two calls have been in progress at the same time
  closeResult,      \* how the latest close() ended: none / ok / raised
  poolClosed,       \* some close_all() has completed
  \* the callers of the writer
  cls,              \* a call of classifier.classify_headline: input, output
  eng               \* a run of ScraperEngine.scrape_all_sites

poolVars == <<pool_size, connections, closedConns>>
bufVars == <<batch_size, pending_batch, batch_lock>>
sqlVars == <<tableExists, store, txn>>
envVars == <<clock, calls, auxCalls, failures>>
histVars == <<accepted, returnedOk, everFailed, failedRows, cleared, overlapped,
              closeResult, poolClosed>>
appVars == <<cls, eng>>
vars == <<poolVars, bufVars, sqlVars, thread, envVars, histVars, appVars>>

\* --------------------------------------------------------------- helpers
Range(s) == {s[i] : i \in 1..Len(s)}

Count(s, x) == Cardinality({i \in 1..Len(s) : s[i] = x})

Values(s) == [i \in 1..Len(s) |-> s[i][1]]

NoTxn == [del |-> FALSE, rows |-> <<>>]

\* connection c holds SQLite's write lock
HasWrite(c) == txn[c].del \/ txn[c].rows # <<>>

LockedByOther(c) == \E d \in Conns : d # c /\ HasWrite(d)

\* rows built from vs with a headline that repeats an earlier one left out
\* (the set() of scraper.py's unique_headlines)
RECURSIVE Unique(_)
Unique(vs) ==
  IF vs = <<>> THEN <<>>
  ELSE LET front == Unique(SubSeq(vs, 1, Len(vs) - 1))
           last == vs[Len(vs)]
       IN IF \E i \in 1..Len(front) : front[i] = last THEN front
          ELSE Append(front, last)

StampUnique(vs, t0) == [i \in 1..Len(Unique(vs)) |-> <<Unique(vs)[i], t0 + i - 1>>]

\* rows built from the values vs at consecutive datetime.now() ticks
Stamp(vs, t0) == [i \in 1..Len(vs) |-> <<vs[i], t0 + i - 1>>]

SeqsUpTo(S, n) == UNION {[1..k -> S] : k \in 0..n}

\* A thread outside any Database method.  Its locals are gone, so idle
\* threads are interchangeable.
IdleThread ==
  [pc |-> "idle",            \* position
   op |-> "none",            \* the Database method the thread is in
   arg |-> <<>>,             \* the call's argument (save: <<value>>; save_batch: the list)
   rec |-> <<>>,             \* the tuple save() appended (line 114)
   batch_to_save |-> <<>>,   \* _flush_batch's batch_to_save / save_batch's data
   conn |-> 0,               \* the borrowed connection, 0 = none
   err |-> FALSE,            \* an sqlite3.Error is propagating
   getOutcome |-> "none",    \* the current get_connection: none / conn / blocked
   flushOutcome |-> "none",  \* the call's _flush_batch: none / empty / ok / failed
   afterClose |-> FALSE,     \* the call began after a close() had returned
   closedAtGet |-> FALSE]    \* get_connection was invoked after a close_all()

pc(t) == thread[t].pc

\* some close() has returned
closeDone == closeResult # "none"

Idle(t) == pc(t) = "idle"

Goto(t, p) == thread' = [thread EXCEPT ![t].pc = p]

\* ------------------------------------------------------------------ Init
\* The state after Database(db_path, pool_size): pool_size connections in
\* the queue, nothing pending, the lock free.  pool_size is the constructor's
\* argument and batch_size the public attribute set at line 61 (a caller may
\* assign it; the spec's scenarios use 2), both drawn from small ranges.
\* The file at db_path may or may not already hold the headlines table.
InitDatabase ==
  /\ pool_size \in 1..MaxPoolSize
  /\ connections = [i \in 1..pool_size |-> i]
  /\ closedConns = {}
  /\ batch_size \in 1..MaxBatchSize
  /\ pending_batch = <<>>
  /\ batch_lock = 0
  /\ tableExists \in BOOLEAN
  /\ store = <<>>
  /\ txn = [c \in Conns |-> NoTxn]
  /\ thread = [t \in Threads |-> IdleThread]
  /\ clock = 1
  /\ calls = 0
  /\ auxCalls = 0
  /\ failures = 0
  /\ accepted = {}
  /\ returnedOk = {}
  /\ everFailed = FALSE
  /\ failedRows = {}
  /\ cleared = FALSE
  /\ overlapped = FALSE
  /\ closeResult = "none"
  /\ poolClosed = FALSE

\* no classify_headline call and no scrape_all_sites run has been made
NoCall == [pc |-> "none"]

\* The writer used directly by its client threads.
Init ==
  /\ InitDatabase
  /\ cls = NoCall
  /\ eng = NoCall

\* ----------------------------------------------------------------- calls
\* rows that calls already begun will still stamp
RECURSIVE ReservedUpTo(_)
ReservedUpTo(n) ==
  IF n = 0 THEN 0
  ELSE ReservedUpTo(n - 1) + (CASE pc(n) = "save_append" -> 1
                                [] pc(n) = "sb_check" -> Len(thread[n].arg)
                                [] OTHER -> 0)

Reserved == ReservedUpTo(NumThreads)

\* Thread t enters method name at position first with argument a, the run
\* being bounded to budget calls.  Idle threads being interchangeable, the
\* lowest-numbered one makes the call.
Begin(t, name, first, a, budget) ==
  /\ Idle(t)
  /\ \A u \in Threads : u < t => ~Idle(u)
  /\ calls < budget
  /\ calls' = calls + 1
  /\ thread' = [thread EXCEPT ![t] = [IdleThread EXCEPT !.pc = first, !.op = name,
                                        !.arg = a, !.afterClose = closeDone]]
  /\ overlapped' = (overlapped \/ \E u \in Threads : u # t /\ ~Idle(u))

\* Thread t leaves its method, normally or with the exception propagating.
Return(t, raised) ==
  /\ thread' = [thread EXCEPT ![t] = IdleThread]
  /\ closeResult' = IF thread[t].op # "close" THEN closeResult
                    ELSE IF raised THEN "raised" ELSE "ok"

\* save(source, headline, category, raw_label, confidence) with valid
\* arguments (lines 107-111 pass): the thread goes on to take batch_lock.
SaveCalled(t, budget) ==
  \E v \in Vals :
    /\ (clock - 1) + Reserved + 1 <= MaxRows
    /\ Begin(t, "save", "save_append", <<v>>, budget)
    /\ UNCHANGED <<appVars, poolVars, bufVars, sqlVars, clock, auxCalls, failures,
                   accepted, returnedOk, everFailed, failedRows, cleared, closeResult, poolClosed>>

CallSave(t) == SaveCalled(t, MaxCalls)

\* the threshold test with > for >=
BatchOverfull(p, b) == Len(p) > b

\* the batch is full (line 117)
BatchFull(p, b) == Len(p) >= b

\* Lines 113-118: acquire batch_lock, append the stamped tuple, and test the
\* batch size.  (Taking the lock and appending are one step: nothing another
\* thread can see lies between them.)
SaveAppend(t) ==
  /\ pc(t) = "save_append"
  /\ batch_lock = 0
  /\ LET row == <<thread[t].arg[1], clock>>
         p == Append(pending_batch, row)
     IN /\ batch_lock' = t
        /\ pending_batch' = p
        /\ accepted' = accepted \cup {row}
        /\ clock' = clock + 1
        /\ thread' = [thread EXCEPT ![t].rec = row,
                        ![t].pc = IF BatchFull(p, batch_size) THEN "flush_check"
                                  ELSE "save_unlock"]
  /\ UNCHANGED <<appVars, poolVars, batch_size, sqlVars, calls, auxCalls, failures,
                 returnedOk, everFailed, failedRows, cleared, overlapped, closeResult, poolClosed>>

\* End of the `with self.batch_lock:` block: the lock is released, also when
\* _flush_batch raised, and save returns (or the exception leaves save).
SaveUnlock(t) ==
  /\ pc(t) = "save_unlock"
  /\ batch_lock' = 0
  /\ Return(t, thread[t].err)
  /\ returnedOk' = IF thread[t].err THEN returnedOk
                   ELSE returnedOk \cup {thread[t].rec}
  /\ UNCHANGED <<appVars, poolVars, batch_size, pending_batch, sqlVars, envVars, accepted,
                 everFailed, failedRows, cleared, overlapped, poolClosed>>

\* ---------------------------------------------------------- DatabasePool
\* a get that hands out the head of the queue and leaves it in the queue
QueueAfterGetKeepsHead(q) == q

\* queue.Queue.get(): the queue without the item handed out
QueueAfterGet(q) == Tail(q)

GetPcs == {"flush_get", "sb_get", "init_get", "clear_get", "stats_get"}

AfterGet(p) ==
  CASE p = "flush_get" -> "flush_exec"
    [] p = "sb_get" -> "sb_exec"
    [] p = "init_get" -> "init_exec"
    [] p = "clear_get" -> "clear_exec"
    [] p = "stats_get" -> "stats_exec"

\* get_connection (lines 33-35): self.connections.get() hands out the head of
\* the queue, or blocks inside Queue.get while the queue is empty and resumes
\* when a connection is put back.  There is no closed flag to test.
GetConnection(t) ==
  /\ pc(t) \in GetPcs
  /\ IF connections # <<>>
       THEN /\ connections' = QueueAfterGet(connections)
            /\ thread' = [thread EXCEPT
                 ![t].conn = Head(connections),
                 ![t].pc = AfterGet(pc(t)),
                 ![t].getOutcome = "conn",
                 ![t].closedAtGet = IF thread[t].getOutcome = "blocked" THEN @
                                    ELSE poolClosed]
       ELSE /\ thread[t].getOutcome # "blocked"
            /\ thread' = [thread EXCEPT ![t].getOutcome = "blocked",
                                        ![t].closedAtGet = poolClosed]
            /\ UNCHANGED connections
  /\ UNCHANGED <<appVars, pool_size, closedConns, bufVars, sqlVars, envVars, histVars>>

\* a put that loses the item
QueueAfterPutLost(q, x) == q

\* queue.Queue.put(x) on the bounded queue
QueueAfterPut(q, x) == Append(q, x)

\* a finally clause that keeps the connection
ConnectionKept(t) == UNCHANGED connections

\* return_connection (lines 37-39), as the finally clause of every borrower
\* runs it: self.connections.put(conn) (put blocks while the queue is full).
\* The finally clause runs in the same step as the statement that ends the
\* try body: it touches only the queue, and nothing another thread can see
\* lies between.
ReturnConnection(t) ==
  /\ Len(connections) < pool_size
  /\ connections' = QueueAfterPut(connections, thread[t].conn)

\* Where control is after the try/finally of thread t's method, the error
\* flag being e: _flush_batch returns into save's with-block or on to
\* close_all, or raises into save's with-block or close's except clause;
\* every other method is left.
AfterFinally(t, e) ==
  CASE thread[t].op = "save" -> "save_unlock"
    [] thread[t].op = "close" -> IF e THEN "close_except" ELSE "closeall_check"
    [] OTHER -> "idle"

\* Thread t's try/finally ends: the connection goes back, and control moves
\* on with the thread's fields updated as th.
Finally(t, th) ==
  /\ ReturnConnection(t)
  /\ IF AfterFinally(t, th.err) = "idle"
       THEN Return(t, th.err)
       ELSE /\ thread' = [thread EXCEPT ![t] = [th EXCEPT !.conn = 0,
                                                 !.pc = AfterFinally(t, th.err)]]
            /\ UNCHANGED closeResult

\* ---------------------------------------------------------- _flush_batch
\* _flush_batch without its early return
NothingPendingIgnored(p) == FALSE

\* `not self.pending_batch` (line 153)
NothingPending(p) == p = <<>>

\* Lines 153-154: `if not self.pending_batch: return`.
FlushCheck(t) ==
  /\ pc(t) = "flush_check"
  /\ IF NothingPending(pending_batch)
       THEN thread' = [thread EXCEPT ![t].pc = AfterFinally(t, FALSE),
                                     ![t].flushOutcome = "empty"]
       ELSE Goto(t, "flush_copy")
  /\ UNCHANGED <<appVars, poolVars, bufVars, sqlVars, envVars, histVars>>

\* Line 156: batch_to_save = self.pending_batch.copy()
FlushCopy(t) ==
  /\ pc(t) = "flush_copy"
  /\ thread' = [thread EXCEPT ![t].batch_to_save = pending_batch,
                              ![t].pc = "flush_clear"]
  /\ UNCHANGED <<appVars, poolVars, bufVars, sqlVars, envVars, histVars>>

\* Line 157: self.pending_batch.clear()
FlushClear(t) ==
  /\ pc(t) = "flush_clear"
  /\ pending_batch' = <<>>
  /\ Goto(t, "flush_get")
  /\ UNCHANGED <<appVars, poolVars, batch_size, batch_lock, sqlVars, envVars, histVars>>

\* Line 172: self.pending_batch.extend(batch_to_save)
Restored(p, b) == p \o b

\* Lines 169-173: the except branch puts the batch back and re-raises.
FlushRestore(t) ==
  /\ pc(t) = "flush_restore"
  /\ pending_batch' = Restored(pending_batch, thread[t].batch_to_save)
  /\ failedRows' = failedRows \cup Range(thread[t].batch_to_save)
  /\ Finally(t, [thread[t] EXCEPT !.err = TRUE, !.flushOutcome = "failed"])
  /\ UNCHANGED <<appVars, pool_size, closedConns, batch_size, batch_lock, sqlVars, envVars,
                 accepted, returnedOk, everFailed, cleared, overlapped, poolClosed>>

\* close's `except Exception as e: print(...)` (lines 205-206): the error is
\* printed and close returns normally, close_all not having run.
CloseExcept(t) ==
  /\ pc(t) = "close_except"
  /\ Return(t, FALSE)
  /\ UNCHANGED <<appVars, poolVars, bufVars, sqlVars, envVars, accepted, returnedOk,
                 everFailed, failedRows, cleared, overlapped, poolClosed>>

\* ---------------------------------------------------------------- sqlite
WritePcs == {"flush_exec", "sb_exec", "clear_exec"}
ExecPcs == WritePcs \cup {"init_exec", "stats_exec"}
CommitPcs == {"flush_commit", "sb_commit", "init_commit", "clear_commit"}

\* A statement of thread t raises sqlite3.Error: _flush_batch goes to its
\* except branch; the other methods print (or not) and re-raise through
\* their finally clause.
Raise(t) ==
  /\ everFailed' = TRUE
  /\ IF thread[t].op \in {"save", "close"}
       THEN /\ Goto(t, "flush_restore")
            /\ UNCHANGED <<connections, closeResult>>
       ELSE Finally(t, [thread[t] EXCEPT !.err = TRUE])

\* the open transaction after executemany inserted rows
Inserted(tx, rows) == [tx EXCEPT !.rows = @ \o rows]

\* cursor.executemany(INSERT ..., batch) succeeds (lines 162-165, 138-141):
\* every row joins the connection's open transaction.
ExecMany(t) ==
  /\ pc(t) \in {"flush_exec", "sb_exec"}
  /\ tableExists
  /\ ~LockedByOther(thread[t].conn)
  /\ txn' = [txn EXCEPT ![thread[t].conn] = Inserted(@, thread[t].batch_to_save)]
  /\ Goto(t, IF pc(t) = "flush_exec" THEN "flush_commit" ELSE "sb_commit")
  /\ UNCHANGED <<appVars, poolVars, bufVars, tableExists, store, envVars, histVars>>

\* CREATE TABLE IF NOT EXISTS (lines 75-85).  sqlite3 opens no transaction
\* for DDL, so the table exists as soon as the statement has run.
InitExec(t) ==
  /\ pc(t) = "init_exec"
  /\ tableExists' = TRUE
  /\ Goto(t, "init_commit")
  /\ UNCHANGED <<appVars, poolVars, bufVars, store, txn, envVars, histVars>>

\* DELETE FROM headlines (line 187): in the connection's transaction; rows the
\* transaction had inserted are deleted with the rest.
ClearExec(t) ==
  /\ pc(t) = "clear_exec"
  /\ tableExists
  /\ ~LockedByOther(thread[t].conn)
  /\ txn' = [txn EXCEPT ![thread[t].conn] = [del |-> TRUE, rows |-> <<>>]]
  /\ Goto(t, "clear_commit")
  /\ UNCHANGED <<appVars, poolVars, bufVars, tableExists, store, envVars, histVars>>

\* The two SELECT COUNT statements of get_stats (lines 213-217).
StatsExec(t) ==
  /\ pc(t) = "stats_exec"
  /\ tableExists
  /\ Finally(t, thread[t])
  /\ UNCHANGED <<appVars, pool_size, closedConns, bufVars, sqlVars, envVars, accepted,
                 returnedOk, everFailed, failedRows, cleared, overlapped, poolClosed>>

\* "no such table: headlines": the statement is not even prepared.
ExecFailNoTable(t) ==
  /\ pc(t) \in ExecPcs \ {"init_exec"}
  /\ ~tableExists
  /\ Raise(t)
  /\ UNCHANGED <<appVars, pool_size, closedConns, bufVars, sqlVars, envVars, accepted,
                 returnedOk, failedRows, cleared, overlapped, poolClosed>>

\* "database is locked": another connection holds the write lock.
ExecFailBusy(t) ==
  /\ pc(t) \in WritePcs
  /\ tableExists
  /\ LockedByOther(thread[t].conn)
  /\ Raise(t)
  /\ UNCHANGED <<appVars, pool_size, closedConns, bufVars, sqlVars, envVars, accepted,
                 returnedOk, failedRows, cleared, overlapped, poolClosed>>

\* What a failed statement leaves of the connection's transaction: SQLite
\* undoes the failing statement only (the rows executemany had already
\* inserted stay in the open transaction; nothing in the code rolls back), or
\* it rolls the whole transaction back, depending on the error.
AfterFailure(tx, done, rolledBack) ==
  IF rolledBack THEN NoTxn ELSE Inserted(tx, done)

\* The backend fails in the middle of a statement (I/O error, disk full, an
\* unbindable value in row k+1, ...): k rows of an executemany had gone in.
ExecFailBackend(t) ==
  /\ pc(t) \in ExecPcs
  /\ tableExists \/ pc(t) = "init_exec"
  /\ pc(t) \in WritePcs => ~LockedByOther(thread[t].conn)
  /\ failures < MaxFailures
  /\ failures' = failures + 1
  /\ \E rolledBack \in BOOLEAN :
       \E k \in 0..(IF pc(t) \in {"flush_exec", "sb_exec"}
                      THEN Len(thread[t].batch_to_save) - 1 ELSE 0) :
         txn' = [txn EXCEPT ![thread[t].conn] =
                   AfterFailure(@, SubSeq(thread[t].batch_to_save, 1, k), rolledBack)]
  /\ Raise(t)
  /\ UNCHANGED <<appVars, pool_size, closedConns, bufVars, tableExists, store, clock, calls,
                 auxCalls, accepted, returnedOk, failedRows, cleared, overlapped, poolClosed>>

\* the table after a connection's transaction tx is committed
Committed(st, tx) == (IF tx.del THEN <<>> ELSE st) \o tx.rows

\* conn.commit() (lines 166, 142, 86, 188): everything in the connection's
\* open transaction becomes durable.
Commit(t) ==
  /\ pc(t) \in CommitPcs
  /\ store' = Committed(store, txn[thread[t].conn])
  /\ cleared' = (cleared \/ txn[thread[t].conn].del)
  /\ txn' = [txn EXCEPT ![thread[t].conn] = NoTxn]
  /\ Finally(t, [thread[t] EXCEPT
                   !.flushOutcome = IF pc(t) = "flush_commit" THEN "ok" ELSE @])
  /\ UNCHANGED <<appVars, pool_size, closedConns, bufVars, tableExists, envVars, accepted,
                 returnedOk, everFailed, failedRows, overlapped, poolClosed>>

\* conn.commit() raises: the transaction stays open, or is rolled back.
CommitFail(t) ==
  /\ pc(t) \in CommitPcs
  /\ failures < MaxFailures
  /\ failures' = failures + 1
  /\ \E rolledBack \in BOOLEAN :
       txn' = [txn EXCEPT ![thread[t].conn] = AfterFailure(@, <<>>, rolledBack)]
  /\ Raise(t)
  /\ UNCHANGED <<appVars, pool_size, closedConns, bufVars, tableExists, store, clock, calls,
                 auxCalls, accepted, returnedOk, failedRows, cleared, overlapped, poolClosed>>

\* ------------------------------------------------------------ save_batch
\* save_batch(headlines_batch): the list is the caller's.
CallSaveBatch(t) ==
  \E vs \in SeqsUpTo(Vals, MaxBatchArg) :
    /\ (clock - 1) + Reserved + Len(vs) <= MaxRows
    /\ Begin(t, "save_batch", "sb_check", vs, MaxCalls)
    /\ UNCHANGED <<appVars, poolVars, bufVars, sqlVars, clock, auxCalls, failures,
                   accepted, returnedOk, everFailed, failedRows, cleared, closeResult, poolClosed>>

\* Lines 127-128 (`if not headlines_batch: return`); otherwise on to
\* get_connection.  The rows of `data` (lines 135-136) are stamped here: the
\* stamps are read by nobody before the insert.
SbCheck(t) ==
  /\ pc(t) = "sb_check"
  /\ IF thread[t].arg = <<>>
       THEN /\ Return(t, FALSE)
            /\ UNCHANGED clock
       ELSE /\ thread' = [thread EXCEPT ![t].pc = "sb_get",
                            ![t].batch_to_save = Stamp(thread[t].arg, clock)]
            /\ clock' = clock + Len(thread[t].arg)
            /\ UNCHANGED closeResult
  /\ UNCHANGED <<appVars, poolVars, bufVars, sqlVars, calls, auxCalls, failures, accepted,
                 returnedOk, everFailed, failedRows, cleared, overlapped, poolClosed>>

\* ------------------------------------- init_db, clear_all_data, get_stats
CallAux(t, name, first) ==
  /\ auxCalls < MaxAuxCalls
  /\ auxCalls' = auxCalls + 1
  /\ Begin(t, name, first, <<>>, MaxCalls)
  /\ UNCHANGED <<appVars, poolVars, bufVars, sqlVars, clock, failures, accepted,
                 returnedOk, everFailed, failedRows, cleared, closeResult,
                 poolClosed>>

CallInitDb(t) == CallAux(t, "init_db", "init_get")

CallClearAllData(t) == CallAux(t, "clear_all_data", "clear_get")

CallGetStats(t) == CallAux(t, "get_stats", "stats_get")

\* ----------------------------------------------------------------- close
\* close() (lines 196-201): `if self.pending_batch: self._flush_batch()`,
\* without batch_lock; else straight to close_all.
CloseCalled(t, budget) ==
  /\ Begin(t, "close",
           IF pending_batch # <<>> THEN "flush_check" ELSE "closeall_check", <<>>,
           budget)
  /\ UNCHANGED <<appVars, poolVars, bufVars, sqlVars, clock, auxCalls, failures, accepted,
                 returnedOk, everFailed, failedRows, cleared, closeResult,
                 poolClosed>>

CallClose(t) == CloseCalled(t, MaxCalls)

\* close_all (lines 43-45): `while not self.connections.empty()`; when the
\* queue is empty close_all, and with it close, returns.
CloseAllCheck(t) ==
  /\ pc(t) = "closeall_check"
  /\ IF connections = <<>>
       THEN /\ Return(t, FALSE)
            /\ poolClosed' = TRUE
       ELSE /\ Goto(t, "closeall_get")
            /\ UNCHANGED <<closeResult, poolClosed>>
  /\ UNCHANGED <<appVars, poolVars, bufVars, sqlVars, envVars, accepted, returnedOk,
                 everFailed, failedRows, cleared, overlapped>>

\* conn = self.connections.get(); conn.close(): the connection leaves the
\* queue for good and its open transaction is rolled back.  (get blocks if
\* another thread emptied the queue since the test.)
CloseAllGet(t) ==
  /\ pc(t) = "closeall_get"
  /\ connections # <<>>
  /\ closedConns' = closedConns \cup {Head(connections)}
  /\ txn' = [txn EXCEPT ![Head(connections)] = NoTxn]
  /\ connections' = Tail(connections)
  /\ Goto(t, "closeall_check")
  /\ UNCHANGED <<appVars, pool_size, bufVars, tableExists, store, envVars, histVars>>

\* ------------------------------------------------------------------ Next
Next ==
  \E t \in Threads :
    \/ CallSave(t)
    \/ SaveAppend(t)
    \/ SaveUnlock(t)
    \/ FlushCheck(t)
    \/ FlushCopy(t)
    \/ FlushClear(t)
    \/ FlushRestore(t)
    \/ GetConnection(t)
    \/ CloseExcept(t)
    \/ ExecMany(t)
    \/ InitExec(t)
    \/ ClearExec(t)
    \/ StatsExec(t)
    \/ ExecFailNoTable(t)
    \/ ExecFailBusy(t)
    \/ ExecFailBackend(t)
    \/ Commit(t)
    \/ CommitFail(t)
    \/ CallSaveBatch(t)
    \/ SbCheck(t)
    \/ CallInitDb(t)
    \/ CallClearAllData(t)
    \/ CallGetStats(t)
    \/ CallClose(t)
    \/ CloseAllCheck(t)
    \/ CloseAllGet(t)

Spec == Init /\ [][Next]_vars

\* ------------------------------------------------- the sequential writer
\* One caller, a backend that never fails, a file that holds the table:
\* save() and close() called one after the other, in any order.
MaxSeqCalls == 4

InitSeq == Init /\ tableExists

NextSeq ==
  \/ SaveCalled(1, MaxSeqCalls)
  \/ SaveAppend(1)
  \/ SaveUnlock(1)
  \/ FlushCheck(1)
  \/ FlushCopy(1)
  \/ FlushClear(1)
  \/ GetConnection(1)
  \/ ExecMany(1)
  \/ Commit(1)
  \/ CloseCalled(1, MaxSeqCalls)
  \/ CloseAllCheck(1)
  \/ CloseAllGet(1)

SpecSeq == InitSeq /\ [][NextSeq]_vars

\* ------------------------------------------------ the writer, never closed
\* Every method but close(), called by all threads, under fair scheduling: a
\* thread that can take its next step (its lock or its connection is there,
\* its statement returns or raises) eventually takes it.  When a caller
\* makes its next call is up to the caller.
Step(t) ==
  \/ SaveAppend(t)
  \/ SaveUnlock(t)
  \/ FlushCheck(t)
  \/ FlushCopy(t)
  \/ FlushClear(t)
  \/ FlushRestore(t)
  \/ GetConnection(t)
  \/ SbCheck(t)
  \/ ExecMany(t)
  \/ InitExec(t)
  \/ ClearExec(t)
  \/ StatsExec(t)
  \/ ExecFailNoTable(t)
  \/ ExecFailBusy(t)
  \/ ExecFailBackend(t)
  \/ Commit(t)
  \/ CommitFail(t)

NextLive ==
  \E t \in Threads :
    \/ CallSave(t)
    \/ CallSaveBatch(t)
    \/ CallInitDb(t)
    \/ CallClearAllData(t)
    \/ CallGetStats(t)
    \/ Step(t)

Fairness == \A t \in Threads : WF_vars(Step(t))

SpecLive == Init /\ [][NextLive]_vars /\ Fairness

\* ------------------------------------- the writer called with any confidence
\* One caller that passes any confidence, in range or not, to save and to
\* save_batch.  Here a row's value is <<fields, confidence>>, the confidence
\* in hundredths.
Confidences == {0 - 1, 0, 100, 101}
ConfArgs == Vals \X Confidences

\* line 110 (the isinstance test aside)
InvalidConfidence(confidence) == confidence < 0 \/ confidence > 100

\* save(...) with a confidence that passes the test of lines 110-111
SaveValid(t) ==
  \E a \in ConfArgs :
    /\ ~InvalidConfidence(a[2])
    /\ (clock - 1) + Reserved + 1 <= MaxRows
    /\ Begin(t, "save", "save_append", <<a>>, MaxSeqCalls)
    /\ UNCHANGED <<appVars, poolVars, bufVars, sqlVars, clock, auxCalls, failures,
                   accepted, returnedOk, everFailed, failedRows, cleared, closeResult, poolClosed>>

\* save(...) raises ValueError at line 111: the call is over
SaveInvalid(t) ==
  \E a \in ConfArgs :
    /\ InvalidConfidence(a[2])
    /\ Idle(t)
    /\ calls < MaxSeqCalls
    /\ calls' = calls + 1
    /\ UNCHANGED <<appVars, poolVars, bufVars, sqlVars, thread, clock, auxCalls, failures,
                   histVars>>

\* save_batch(headlines_batch): no line of save_batch looks at the confidence
SaveBatchAny(t) ==
  \E vs \in SeqsUpTo(ConfArgs, MaxBatchArg) :
    /\ (clock - 1) + Reserved + Len(vs) <= MaxRows
    /\ Begin(t, "save_batch", "sb_check", vs, MaxSeqCalls)
    /\ UNCHANGED <<appVars, poolVars, bufVars, sqlVars, clock, auxCalls, failures,
                   accepted, returnedOk, everFailed, failedRows, cleared, closeResult, poolClosed>>

NextConf ==
  \/ SaveValid(1)
  \/ SaveInvalid(1)
  \/ SaveAppend(1)
  \/ SaveUnlock(1)
  \/ FlushCheck(1)
  \/ FlushCopy(1)
  \/ FlushClear(1)
  \/ SaveBatchAny(1)
  \/ SbCheck(1)
  \/ GetConnection(1)
  \/ ExecMany(1)
  \/ Commit(1)

SpecConf == InitSeq /\ [][NextConf]_vars

\* ============================================ classifier.classify_headline
\* Scores are in hundredths (0.5 is 50).  A text is a sequence of characters;
\* a classifier result is the list of [label, score] entries that
\* model(text, top_k=3) returns.
MaxTextLen == 5
MaxTopK == 2

Chars == {"d", "i", "e", "D"}
Texts == SeqsUpTo(Chars, MaxTextLen)
Labels == {"other", "sports", "unlisted"}
Scores == {30, 50, 70}
Entries == [label : Labels, score : Scores]
Results == SeqsUpTo(Entries, MaxTopK) \ {<<>>}

\* line 5
tragedy_keywords ==
  {<<"d", "i", "e", "d">>, <<"k", "i", "l", "l", "e", "d">>, <<"d", "e", "a", "t", "h">>,
   <<"m", "u", "r", "d", "e", "r">>, <<"i", "n", "j", "u", "r", "e", "d">>,
   <<"a", "t", "t", "a", "c", "k">>}

\* lines 7-23
label_mapping ==
  [l \in {"news_&_social_concern", "sports", "music", "arts_&_culture",
          "celebrity_&_pop_culture", "politics", "science_&_technology",
          "business_&_entrepreneurs", "health", "family", "education",
          "diaries_&_daily_life", "film_tv_&_video", "environmental_issues", "other"} |->
     CASE l \in {"news_&_social_concern", "environmental_issues"} -> "World News"
       [] l = "sports" -> "Sports"
       [] l \in {"music", "arts_&_culture", "celebrity_&_pop_culture", "film_tv_&_video"}
            -> "Entertainment"
       [] l = "politics" -> "Politics"
       [] l = "science_&_technology" -> "Technology"
       [] l = "business_&_entrepreneurs" -> "Business"
       [] l = "health" -> "Health"
       [] OTHER -> "General News"]

\* the score below which a tragedy keyword overrides the category (line 32)
OverrideScore == 50

\* a max() that lets a later entry with an equal score replace the best so far
BeatsOrTies(x, best) == x.score >= best.score

\* max(): an entry replaces the best so far only when its key is greater
Beats(x, best) == x.score > best.score

\* max(result, key=lambda x: x["score"]) (line 27), scanning from entry i
RECURSIVE MaxFrom(_, _, _)
MaxFrom(result, i, best) ==
  IF i > Len(result) THEN best
  ELSE MaxFrom(result, i + 1, IF Beats(result[i], best) THEN result[i] ELSE best)

MaxByScore(result) == MaxFrom(result, 2, result[1])

\* a text left as it is
AsWritten(text) == text

\* str.lower() on the characters of the alphabet
Lower(text) ==
  [i \in 1..Len(text) |->
     CASE text[i] = "D" -> "d"
       [] OTHER -> text[i]]

\* `word in text`: word occurs in text as a substring
In(word, text) ==
  \E i \in 0..(Len(text) - Len(word)) : SubSeq(text, i + 1, i + Len(word)) = word

\* dict.get(label, "General News") (line 30)
MappingGet(label) ==
  IF label \in DOMAIN label_mapping THEN label_mapping[label] ELSE "General News"

\* lines 27-35, given the result of model(text, top_k=3)
classify_headline(text, result) ==
  LET best == MaxByScore(result)
      label == best.label
      score == best.score
      category == MappingGet(label)
  IN IF score < OverrideScore /\ \E word \in tragedy_keywords : In(word, Lower(text))
       THEN <<"World News", label, score>>
       ELSE <<category, label, score>>

\* classify_headline(text) is called and the model answers (line 26)
ModelReturns ==
  /\ cls.pc = "none"
  /\ \E text \in Texts, result \in Results :
       cls' = [pc |-> "resolve", text |-> text, result |-> result]
  /\ UNCHANGED <<poolVars, bufVars, sqlVars, thread, envVars, histVars, eng>>

\* lines 27-35
Resolve ==
  /\ cls.pc = "resolve"
  /\ cls' = [pc |-> "returned", text |-> cls.text, result |-> cls.result,
             out |-> classify_headline(cls.text, cls.result)]
  /\ UNCHANGED <<poolVars, bufVars, sqlVars, thread, envVars, histVars, eng>>

NextClassifier == ModelReturns \/ Resolve

\* the classifier does not touch the writer: one Database, left alone
InitClassifier == Init /\ pool_size = 1 /\ batch_size = 1 /\ tableExists

SpecClassifier == InitClassifier /\ [][NextClassifier]_vars

\* ============================================= ScraperEngine (one caller)
\* scrape_all_sites runs in one thread, so each call it makes on the writer
\* runs to its end before the next statement: save_batch is one step here,
\* built from the same pool, transaction and stamping operators as above.
\* A site is named by its index in websites.  The page and the zero-shot
\* classifier are outside this repository's core: what extract_headlines
\* finds and what classifier.classify answers (or that they raise) is the
\* environment's choice.  Scores are in hundredths.
MaxSites == 2
MaxHeadlines == 2

Headlines == {"a", "b"}
Categories == {"Sports", "Politics"}
ScoreLists == {<<20>>, <<30>>, <<20, 40>>}

\* the default of classify_headlines' confidence_threshold (line 36)
confidence_threshold == 30

\* max(scores) (lines 40, 59), scanning from entry i
RECURSIVE MaxScoreFrom(_, _, _)
MaxScoreFrom(scores, i, best) ==
  IF i > Len(scores) THEN best
  ELSE MaxScoreFrom(scores, i + 1, IF scores[i] > best THEN scores[i] ELSE best)

MaxScore(scores) == MaxScoreFrom(scores, 2, scores[1])

\* a gate that drops a score equal to the threshold
AboveThreshold(best_score, threshold) == best_score > threshold

\* line 43
AtLeastThreshold(best_score, threshold) == best_score >= threshold

\* lines 57-60: the tuples handed to save_batch
BatchData(source, classified_headlines) ==
  [i \in 1..Len(classified_headlines) |->
     <<source, classified_headlines[i][1], classified_headlines[i][2],
       classified_headlines[i][3], MaxScore(classified_headlines[i][3])>>]

\* where scrape_all_sites goes on when site (of n) is finished: the next
\* turn of `for site in websites`, or browser.close() and return
NextSite(site, n) == IF site < n THEN "site" ELSE "returned"

\* `except Exception as e: print(...)` (lines 88-89): the loop goes on
Caught(site, n) == NextSite(site, n)

\* process_site is over for the current site, normally (failed = "none") or
\* by an exception raised in extract / classify / save ("locked": save_batch
\* raised because another connection of the pool holds the write lock).
SiteOver(failed, kept, e) ==
  [e EXCEPT !.pc = IF failed = "none" THEN NextSite(eng.site, eng.websites)
                   ELSE Caught(eng.site, eng.websites),
            !.site = eng.site + 1,
            !.headlines = <<>>,
            !.classified = <<>>,
            !.last = <<>>,
            !.log = Append(eng.log, [failed |-> failed, accepted |-> kept])]

\* leaves the writer alone
EngineOnly ==
  UNCHANGED <<poolVars, bufVars, sqlVars, thread, envVars, histVars, cls>>

\* scrape_all_sites(websites, candidate_labels), lines 80-85: nothing to do
\* for an empty list, else the loop starts at the first site.
ScrapeAllSites ==
  /\ eng.pc = "none"
  /\ \E n \in 0..MaxSites :
       eng' = [pc |-> IF n = 0 THEN "returned" ELSE "site",
               websites |-> n,        \* len(websites)
               site |-> 1,            \* the site of the current turn
               headlines |-> <<>>,    \* process_site's headlines
               classified |-> <<>>,   \* classify_headlines' results
               last |-> <<>>,         \* what classifier.classify answered last
               borrows |-> 0,         \* get_connection calls made by save_batch
               log |-> <<>>]          \* how each finished site ended
  /\ EngineOnly

\* extract_headlines (line 69) returns its list (at most MaxHeadlines items)
ExtractHeadlines ==
  /\ eng.pc = "site"
  /\ \E hs \in SeqsUpTo(Headlines, MaxHeadlines) :
       eng' = [eng EXCEPT !.headlines = hs,
                          !.pc = IF hs = <<>> THEN "save" ELSE "classify"]
  /\ EngineOnly

\* extract_headlines raises (page.goto or wait_for_selector timing out)
ExtractFails ==
  /\ eng.pc = "site"
  /\ eng' = SiteOver("extract", <<>>, eng)
  /\ EngineOnly

\* One turn of the loop of classify_headlines (lines 38-46): the classifier
\* answers for the next headline, and the item is kept or skipped.
ClassifyHeadline ==
  /\ eng.pc = "classify"
  /\ LET headline == Head(eng.headlines)
     IN \E category \in Categories, scores \in ScoreLists :
          LET best_score == MaxScore(scores)
              results == IF AtLeastThreshold(best_score, confidence_threshold)
                           THEN Append(eng.classified, <<headline, category, scores>>)
                           ELSE eng.classified
          IN eng' = [eng EXCEPT !.classified = results,
                                !.headlines = Tail(@),
                                !.last = <<headline, category, scores>>,
                                !.pc = IF Tail(eng.headlines) = <<>> THEN "save"
                                       ELSE "classify"]
  /\ EngineOnly

\* classifier.classify raises (line 39): nothing in classify_headlines or
\* process_site catches it, so it ends the site.
ClassifyFails ==
  /\ eng.pc = "classify"
  /\ eng' = SiteOver("classify", eng.classified, eng)
  /\ EngineOnly

\* save_headlines with nothing classified (lines 53-54), then the (empty)
\* print loop of process_site.
SaveNothing ==
  /\ eng.pc = "save"
  /\ eng.classified = <<>>
  /\ eng' = SiteOver("none", <<>>, eng)
  /\ EngineOnly

\* the connection save_batch borrows: the head of the queue
SaveBatchConn == Head(connections)

\* save_headlines (lines 57-63): db.save_batch(batch_data) stamps the rows,
\* borrows a connection, inserts, commits and returns the connection.
SaveHeadlines ==
  /\ eng.pc = "save"
  /\ eng.classified # <<>>
  /\ tableExists
  /\ ~LockedByOther(SaveBatchConn)
  /\ LET data == Stamp(BatchData(eng.site, eng.classified), clock)
     IN /\ store' = Committed(store, Inserted(txn[SaveBatchConn], data))
        /\ clock' = clock + Len(data)
  /\ txn' = [txn EXCEPT ![SaveBatchConn] = NoTxn]
  /\ connections' = QueueAfterPut(QueueAfterGet(connections), SaveBatchConn)
  /\ eng' = SiteOver("none", eng.classified, [eng EXCEPT !.borrows = @ + 1])
  /\ UNCHANGED <<pool_size, closedConns, bufVars, tableExists, thread, calls, auxCalls,
                 failures, histVars, cls>>

\* db.save_batch raises sqlite3.Error: executemany fails after k rows, or
\* ("database is locked") at once, or commit fails; the connection goes back
\* to the pool as the statement left it, and the exception ends the site.
SaveHeadlinesFails ==
  /\ eng.pc = "save"
  /\ eng.classified # <<>>
  /\ tableExists
  /\ LET data == Stamp(BatchData(eng.site, eng.classified), clock)
     IN /\ clock' = clock + Len(data)
        /\ IF LockedByOther(SaveBatchConn)
             THEN UNCHANGED <<txn, failures>>
             ELSE /\ failures < MaxFailures
                  /\ failures' = failures + 1
                  /\ \E rolledBack \in BOOLEAN, k \in 0..Len(data) :
                       txn' = [txn EXCEPT ![SaveBatchConn] =
                                 AfterFailure(@, SubSeq(data, 1, k), rolledBack)]
  /\ everFailed' = TRUE
  /\ connections' = QueueAfterPut(QueueAfterGet(connections), SaveBatchConn)
  /\ eng' = SiteOver(IF LockedByOther(SaveBatchConn) THEN "locked" ELSE "save",
                     eng.classified, [eng EXCEPT !.borrows = @ + 1])
  /\ UNCHANGED <<pool_size, closedConns, bufVars, tableExists, store, thread, calls,
                 auxCalls, accepted, returnedOk, failedRows, cleared, overlapped,
                 closeResult, poolClosed, cls>>

NextEngine ==
  \/ ScrapeAllSites
  \/ ExtractHeadlines
  \/ ExtractFails
  \/ ClassifyHeadline
  \/ ClassifyFails
  \/ SaveNothing
  \/ SaveHeadlines
  \/ SaveHeadlinesFails

\* the engine is handed a Database on which init_db() has run
InitEngine == Init /\ batch_size = 1 /\ tableExists

SpecEngine == InitEngine /\ [][NextEngine]_vars

\* ================================================================ claims
\* thread t takes the step
StepOf(t) == thread'[t] # thread[t]

\* row r is in a batch some _flush_batch has taken out of pending_batch and
\* has neither committed nor put back yet
InFlight(r) ==
  \E u \in Threads :
    /\ pc(u) \in {"flush_get", "flush_exec", "flush_commit", "flush_restore"}
    /\ r \in Range(thread[u].batch_to_save)

\* thread t's _flush_batch failed and has returned (raised) to its caller
FailedFlushReturned(t) ==
  /\ thread[t].flushOutcome = "failed"
  /\ pc(t) \in {"save_unlock", "close_except"}

\* ---------------------------------------------------------------- C1
\* C1: when a flush that failed on a backend error has returned to save or
\* close, no record appended so far is lost (each is in the pending batch, in
\* the store, or in a batch another flush has taken and not yet settled) and
\* none is in the pending batch twice.
C1_FailedFlushKeepsRecords ==
  \A t \in Threads :
    FailedFlushReturned(t) /\ ~cleared =>
      \A r \in accepted :
        /\ Count(pending_batch, r) <= 1
        /\ r \in Range(pending_batch) \/ r \in Range(store) \/ InFlight(r)

\* ---------------------------------------------------------------- C2
\* C2: under any interleaving of close() with save(), a record whose save()
\* returned normally is in the store or in the pending batch (or in a batch
\* a flush still holds): the race drops no record.
C2_NoRecordDropped ==
  ~cleared =>
    \A r \in returnedOk :
      r \in Range(pending_batch) \/ r \in Range(store) \/ InFlight(r)

\* ---------------------------------------------------------------- C3
Borrowers == {t \in Threads : thread[t].conn # 0}

\* C3: at most pool_size connections are borrowed at any time, and no
\* connection is held by two borrowers at once.
C3_PoolBound ==
  /\ Cardinality(Borrowers) <= pool_size
  /\ \A t, u \in Borrowers : t # u => thread[t].conn # thread[u].conn

\* the pool is exhausted: two threads hold the two connections of a pool of 2
C3_Witness ==
  /\ pool_size = 2
  /\ Cardinality(Borrowers) = 2
  /\ connections = <<>>

\* ---------------------------------------------------------------- C4
\* C4: a get_connection() invoked after close_all() has run ends with a
\* pool-closed error: it neither hands out a connection nor blocks.
C4_GetAfterCloseAllFails ==
  \A t \in Threads :
    thread[t].closedAtGet => thread[t].getOutcome = "PoolClosedError"

\* ---------------------------------------------------------------- C5
\* C5: a save() called after close() has returned is refused: it appends
\* nothing to the pending batch.
C5_SaveAfterCloseRefused ==
  \A t \in Threads :
    thread[t].op = "save" /\ thread[t].afterClose => thread[t].rec = <<>>

\* ---------------------------------------------------------------- C6
\* C6: when close()'s final flush has failed, close() raises the error to its
\* caller and has closed every connection of the pool by the time it returns.
C6_CloseSurfacesAndShutsDown ==
  [][\A t \in Threads :
       pc(t) = "close_except" /\ StepOf(t) =>
         /\ closeResult' = "raised"
         /\ closedConns' = 1..pool_size]_vars

\* ---------------------------------------------------------------- C7
\* close() has run to the end of close_all and is about to return
CloseReturning(t) ==
  /\ thread[t].op = "close"
  /\ pc(t) = "closeall_check"
  /\ connections = <<>>

\* a save() appends and tests the threshold in this step
Appends(t) == pc(t) = "save_append" /\ StepOf(t)

\* C7 (one caller, a backend that never fails): a save() goes on to flush
\* exactly when its append brings the pending count to batch_size; whenever
\* no save() is in its locked block the pending count is below batch_size;
\* and when close() returns the pending batch is empty and the store holds
\* every saved record exactly once and nothing else.
C7_BatchedSavesThenClose ==
  /\ [][\A t \in Threads :
          Appends(t) => (thread'[t].pc = "flush_check"
                           <=> Len(pending_batch') = batch_size)]_vars
  /\ [](batch_lock = 0 => Len(pending_batch) < batch_size)
  /\ [](\A t \in Threads :
          CloseReturning(t) =>
            /\ pending_batch = <<>>
            /\ Len(store) = Cardinality(accepted)
            /\ \A r \in accepted : Count(store, r) = 1)

\* the spec's scenario: batch_size 2, three saves, then close: 3 stored rows
C7_Witness ==
  /\ \E t \in Threads : CloseReturning(t)
  /\ batch_size = 2
  /\ Cardinality(accepted) = 3
  /\ Len(store) = 3
  /\ pending_batch = <<>>

\* ---------------------------------------------------------------- C8
\* C8 (calls made one after the other): a record of a batch whose flush
\* failed is never stored twice, whatever flush later succeeds: rows the
\* failed attempt left uncommitted on the connection do not become extra rows.
C8_RetryStoresOnce ==
  ~overlapped => \A r \in failedRows : Count(store, r) <= 1

\* ---------------------------------------------------------------- C9
\* save_batch's commit succeeds in this step and save_batch returns
SaveBatchCommits(t) ==
  /\ pc(t) = "sb_commit"
  /\ thread'[t].pc = "idle"
  /\ ~everFailed'

\* C9 (a backend that has not failed): save_batch(list) returns normally only
\* through its commit; that commit adds to the table one row per element of
\* the list, with the list's values in the list's order, and nothing else;
\* and no step of save_batch changes the pending batch.
C9_SaveBatchRoundTrip ==
  [][\A t \in Threads :
       /\ (thread[t].op = "save_batch" /\ thread[t].arg # <<>> /\ StepOf(t)
             /\ thread'[t].pc = "idle" /\ ~everFailed')
            => SaveBatchCommits(t)
       /\ SaveBatchCommits(t) =>
            /\ Len(store') = Len(store) + Len(thread[t].arg)
            /\ SubSeq(store', 1, Len(store)) = store
            /\ Values(SubSeq(store', Len(store) + 1, Len(store'))) = thread[t].arg
       /\ (thread[t].op = "save_batch" /\ StepOf(t))
            => pending_batch' = pending_batch]_vars

\* save_batch of a list that holds the same headline twice has returned, on a
\* backend that never failed and with no save() made: both rows are stored
C9_Witness ==
  /\ ~everFailed
  /\ accepted = {}
  /\ \A t \in Threads : Idle(t)
  /\ Len(store) = 2
  /\ Values(store) = <<1, 1>>

\* --------------------------------------------------------------- C10
\* C10: _flush_batch entered with nothing pending, save_batch of an empty
\* list, and close() with nothing pending borrow no connection, write
\* nothing, and leave the store and the pending batch as they are; the first
\* two return at once and close goes straight to close_all.
C10_EmptyFlushIsNoOp ==
  [][\A t \in Threads :
       LET quiet == /\ UNCHANGED <<connections, closedConns, store, txn, pending_batch>>
                    /\ thread'[t].conn = 0
       IN /\ (pc(t) = "flush_check" /\ pending_batch = <<>> /\ StepOf(t))
               => quiet /\ thread'[t].pc \in {"save_unlock", "closeall_check"}
          /\ (pc(t) = "sb_check" /\ thread[t].arg = <<>> /\ StepOf(t))
               => quiet /\ thread'[t].pc = "idle"
          /\ (Idle(t) /\ thread'[t].op = "close" /\ pending_batch = <<>>)
               => quiet /\ thread'[t].pc = "closeall_check"]_vars

\* a _flush_batch found nothing pending and has returned (close had seen a
\* record pending, and another flush took it first)
C10_Witness ==
  \E t \in Threads :
    /\ thread[t].flushOutcome = "empty"
    /\ thread[t].conn = 0
    /\ pc(t) \in {"save_unlock", "closeall_check"}

\* --------------------------------------------------------------- C11
\* character a is character b or its upper-case form
SameLetter(a, b) == a = b \/ <<a, b>> \in {<<"D", "d">>}

\* some tragedy keyword occurs in text, letter case aside
HasTragedyWord(text) ==
  \E w \in tragedy_keywords :
    \E i \in 0..(Len(text) - Len(w)) :
      \A j \in 1..Len(w) : SameLetter(text[i + j], w[j])

\* C11: the category classify_headline returns is "World News" when the
\* returned score is below the threshold (0.5) and the text, lower-cased,
\* contains a tragedy keyword; otherwise it is the label map's value for the
\* returned label, or "General News" when the label is not in the map.
C11_KeywordOverride ==
  cls.pc = "returned" =>
    LET category == cls.out[1]
        label == cls.out[2]
        c == cls.out[3]
    IN IF c < 50 /\ HasTragedyWord(cls.text)
         THEN category = "World News"
         ELSE category = (IF label \in DOMAIN label_mapping THEN label_mapping[label]
                          ELSE "General News")

\* a capitalised keyword inside a longer text with a low-score "sports"
\* label: the override replaces the map's "Sports"
C11_Witness ==
  /\ cls.pc = "returned"
  /\ cls.text = <<"i", "D", "i", "e", "d">>
  /\ cls.out = <<"World News", "sports", 30>>

\* --------------------------------------------------------------- C12
\* C12: classify_headline returns the label and the score of an entry whose
\* score is the maximum of the result, and of the first such entry in the
\* result's order.
C12_FirstMaximum ==
  cls.pc = "returned" =>
    \E i \in 1..Len(cls.result) :
      /\ cls.out[2] = cls.result[i].label
      /\ cls.out[3] = cls.result[i].score
      /\ \A j \in 1..Len(cls.result) : cls.result[j].score <= cls.result[i].score
      /\ \A j \in 1..(i - 1) : cls.result[j].score < cls.result[i].score

\* two entries share the maximum and the first one's label is returned
C12_Witness ==
  /\ cls.pc = "returned"
  /\ Len(cls.result) = 2
  /\ cls.result[1].score = cls.result[2].score
  /\ cls.result[1].label = "sports"
  /\ cls.result[2].label = "other"
  /\ cls.out[2] = "sports"

\* --------------------------------------------------------------- C13
\* the first four fields of the stored rows whose source is site j
StoredOf(j) ==
  LET ofSite(v) == v[1] = j
      vs == SelectSeq(Values(store), ofSite)
  IN [i \in 1..Len(vs) |-> <<vs[i][2], vs[i][3], vs[i][4]>>]

\* C13: scrape_all_sites never lets an exception of a site reach its caller;
\* it takes the sites in list order, and when it returns every site has been
\* processed; every site whose own extraction, classification and save did
\* not fail has its accepted headlines stored; and no site's save is made to
\* fail by the failure of an earlier site.
C13_SiteFailuresIsolated ==
  eng.pc # "none" =>
    /\ eng.pc # "raised"
    /\ eng.pc \in {"site", "classify", "save"} =>
         eng.site = Len(eng.log) + 1 /\ eng.site <= eng.websites
    /\ eng.pc = "returned" => Len(eng.log) = eng.websites
    /\ \A j \in 1..Len(eng.log) :
         /\ eng.log[j].failed = "none" => StoredOf(j) = eng.log[j].accepted
         /\ eng.log[j].failed # "locked"

\* --------------------------------------------------------------- C14
\* C14: when the classifier raises on one headline of a site, the headlines
\* of that site that were classified and passed the threshold are saved.
C14_ItemFailureNotFatal ==
  eng.pc # "none" =>
    \A j \in 1..Len(eng.log) :
      eng.log[j].failed = "classify" =>
        \A i \in 1..Len(eng.log[j].accepted) :
          \E k \in 1..Len(StoredOf(j)) : StoredOf(j)[k] = eng.log[j].accepted[i]

\* --------------------------------------------------------------- C15
\* some score of the list reaches the threshold 0.3
Passes(scores) == \E i \in 1..Len(scores) : scores[i] >= 30

\* classifier.classify answers in this step
Answers == eng.pc = "classify" /\ eng'.pc \in {"classify", "save"}

\* save_headlines runs in this step
Saves == eng.pc = "save" /\ eng' # eng

C16_ConfidenceInRange ==
  \A r \in Range(pending_batch) \cup Range(store) :
    0 <= r[1][2] /\ r[1][2] <= 100

\* --------------------------------------------------------------- C17
\* no Database method is in progress
Quiescent == \A t \in Threads : Idle(t)

\* C17: whenever no Database method is in progress and no close_all has
\* completed, every connection of the pool is in the queue, once.
C17_ConnectionsReturned ==
  (Quiescent /\ ~poolClosed) =>
    /\ Len(connections) = pool_size
    /\ Range(connections) = 1..pool_size

\* all calls are over, one of them left by an sqlite3.Error and another
\* having committed rows, and the pool of two is whole
C17_Witness ==
  /\ Quiescent
  /\ ~poolClosed
  /\ everFailed
  /\ store # <<>>
  /\ pool_size = 2
  /\ Len(connections) = 2

\* --------------------------------------------------------------- C18
\* thread t is acquiring a connection for a flush, or inserting or committing
InFlushIO(t) == pc(t) \in {"flush_get", "flush_exec", "flush_commit"}

\* C18: batch_lock is never held by a thread that is acquiring a connection
\* for a flush or running the flush's insert or commit.
C18_LockNotHeldDuringIO ==
  \A t \in Threads : InFlushIO(t) => batch_lock # t

\* --------------------------------------------------------------- C19
\* C19: the except branch of _flush_batch puts the failed batch back in
\* front of the records appended since the batch was taken out.
C19_RestoredAtFront ==
  [][\A t \in Threads :
       (pc(t) = "flush_restore" /\ StepOf(t)) =>
         pending_batch' = thread[t].batch_to_save \o pending_batch]_vars

\* --------------------------------------------------------------- C20
\* C20 (the pool never closed, fair scheduling): every get_connection call
\* returns a connection and every call of a Database method comes to its
\* end, whatever the other threads do.
C20_EveryCallCompletes ==
  \A t \in Threads :
    /\ (pc(t) \in GetPcs) ~> (thread[t].conn # 0)
    /\ (~Idle(t)) ~> Idle(t)

\* a save() that holds batch_lock waits in get_connection for the only
\* connection, which another thread has borrowed
C20_Witness ==
  \E t, u \in Threads :
    /\ batch_lock = t
    /\ pc(t) = "flush_get"
    /\ thread[t].getOutcome = "blocked"
    /\ thread[u].conn # 0

====
